---- MODULE Spec2Model ----
(***************************************************************************)
(* Model of amber-analyze-dihedrals.py: the dihedral unit search of        *)
(* identify_dihedrals() with its helpers window() and the atom lookup of   *)
(* the Ambmask object.                                                     *)
(*                                                                         *)
(* Representation.  A dihedral name such as "04V-4ZB" is kept in its split *)
(* form, the tuple of residue names (dihedname.split('-')).  A Python dict *)
(* is a function together with its iteration order: `cfgkeys` is what      *)
(* config.keys() yields, `hashorder` the order in which a dict of angle    *)
(* names is iterated.  Both are fixed for the lifetime of the dict object  *)
(* but are not related to the order of the YAML document.                  *)
(***************************************************************************)
EXTENDS Integers, Sequences, FiniteSets, TLC

\* ---------------------------------------------------------------------
\* Bounds of the model
\* ---------------------------------------------------------------------
\* Residue IDs of the topology are 1..MaxId.
MaxId == 3

Ids == 1..MaxId

\* Residue names that occur in dihedral names; "X" is any other residue.
Names == {"A", "B"}
Other == "X"

AngleNames == {"psi", "phi"}
AtomNames == <<"H1", "C1", "O4", "C4">>

\* A Python value that may be None is a sequence of at most one element:
\* None is the empty one.  The same for the value returned to the caller,
\* which is absent while the pass runs and after an exception.
None == <<>>
Some(v) == <<v>>
NotReturned == <<>>

\* No exception; AssertionError(ids) names the residue ID list, dihedname
\* the dihedral name in whose loop the exception was raised.
NoError == [kind |-> "none", ids |-> <<>>, dihedname |-> <<>>]

VARIABLES
    config,             \* dict: dihedral name -> declared list of angles
    cfgkeys,            \* config.keys(): the dict's iteration order
    hashorder,          \* iteration order of a dict keyed by angle names
    mapping,            \* resname_resids_mapping
    inverse,            \* options.inverse_search
    noatom,             \* (resid, atom) pairs for which ambmask prints nothing
    toolerr,            \* (resid, atom) pairs on which ambmask fails
    pc,                 \* position in identify_dihedrals
    resname_id_tuples,  \* the sorted residue list
    kidx,               \* number of dihedral names taken from config.keys()
    units,              \* all_units_of_right_length of the current name
    upos,               \* number of units already taken from `units`
    dihedrals,          \* the local list `dihedrals`
    matched,            \* log: "Unit matches: ..." lines of this pass
    calls,              \* log: ambmask atom lookups of this pass
    err,                \* the exception that ended the pass
    returned,           \* the value returned to the caller
    run,                \* 1 in the first pass, 2 in a repeated pass
    prev,               \* outcome of the first pass
    reslookups,         \* log: residue names looked up via ambmask
    topology,           \* residue name of every residue ID of the topology
    quiet,              \* ambmask prints nothing for a mask without match
    call,               \* a function called on its own, with its arguments
    result              \* what that call gave, once it is over

inputs == <<config, cfgkeys, hashorder, mapping, inverse, noatom, toolerr>>
locals == <<pc, resname_id_tuples, kidx, units, upos, dihedrals, matched,
            calls, err, returned>>
\* What no step of identify_dihedrals touches.
outside == <<reslookups, topology, quiet, call, result>>
vars == <<inputs, locals, run, prev, outside>>

\* ---------------------------------------------------------------------
\* Sequence helpers (Python built-ins)
\* ---------------------------------------------------------------------
Range(s) == {s[i] : i \in DOMAIN s}

Min(a, b) == IF a < b THEN a ELSE b

RECURSIVE Concat(_)
\* list.extend over a list of lists
Concat(ss) == IF ss = <<>> THEN <<>> ELSE Head(ss) \o Concat(Tail(ss))

RECURSIVE SetToAscSeq(_)
SetToAscSeq(S) ==
    IF S = {} THEN <<>>
    ELSE LET m == CHOOSE x \in S : \A y \in S : x <= y
         IN <<m>> \o SetToAscSeq(S \ {m})

\* Position at which list.sort places x in the already sorted list s:
\* behind every element that must not come after it.  Equal keys keep
\* their original order (the sort is stable, also with reverse=True).
RECURSIVE InsertByKey(_, _, _)
InsertByKey(x, s, reverse) ==
    IF s = <<>> THEN <<x>>
    ELSE IF (IF reverse THEN Head(s)[2] < x[2] ELSE Head(s)[2] > x[2])
         THEN <<x>> \o s
         ELSE <<Head(s)>> \o InsertByKey(x, Tail(s), reverse)

RECURSIVE SortByKeyRev(_, _, _)
SortByKeyRev(todo, done, reverse) ==
    IF todo = <<>> THEN done
    ELSE SortByKeyRev(Tail(todo), InsertByKey(Head(todo), done, reverse), reverse)

\* list.sort(key=operator.itemgetter(1), reverse=reverse)
SortById(l, reverse) == SortByKeyRev(l, <<>>, reverse)

RECURSIVE InsertInt(_, _)
InsertInt(x, s) ==
    IF s = <<>> THEN <<x>>
    ELSE IF Head(s) > x THEN <<x>> \o s
         ELSE <<Head(s)>> \o InsertInt(x, Tail(s))

RECURSIVE Sorted(_)
\* sorted(ints)
Sorted(l) == IF l = <<>> THEN <<>> ELSE InsertInt(l[Len(l)], Sorted(SubSeq(l, 1, Len(l) - 1)))

\* range(a, b)
PyRange(a, b) == IF b > a THEN [i \in 1..(b - a) |-> a + i - 1] ELSE <<>>

\* ---------------------------------------------------------------------
\* window()
\* ---------------------------------------------------------------------
\* itertools.tee(iterable, n): n independent iterators over the items
Tee(iterable, n) == [i \in 1..n |-> iterable]

\* for i, el in enumerate(els): i times next(el, None)
Advance(els) == [i \in DOMAIN els |-> SubSeq(els[i], i, Len(els[i]))]

RECURSIVE MinLen(_)
MinLen(els) ==
    IF Len(els) = 1 THEN Len(els[1])
    ELSE Min(Len(Head(els)), MinLen(Tail(els)))

\* itertools.izip(*els): stops with the first exhausted iterator
Izip(els) ==
    IF els = <<>> THEN <<>>
    ELSE [t \in 1..MinLen(els) |-> [i \in DOMAIN els |-> els[i][t]]]

\* itertools.tee with a bound on n that also rejects n = 0.
TeeRaisesBelowOne(n) == n < 1

\* itertools.tee(iterable, n) raises ValueError for a negative n.
TeeRaises(n) == n < 0

\* izip_longest(*els): goes on until the last iterator is exhausted.
windowLongest(iterable, n) ==
    [t \in 1..Len(iterable) |->
        [i \in 1..n |-> IF t + i - 1 <= Len(iterable) THEN iterable[t + i - 1] ELSE 0]]

\* window() that advances the i-th iterator once too often.
windowSkipping(iterable, n) ==
    Izip([i \in 1..n |-> SubSeq(iterable, 2 * i - 1, Len(iterable))])

\* izip(*[iter(iterable)] * n): consecutive chunks instead of windows.
windowChunks(iterable, n) ==
    [t \in 1..(Len(iterable) \div n) |-> [i \in 1..n |-> iterable[(t - 1) * n + i]]]

window(iterable, n) == Izip(Advance(Tee(iterable, n)))

\* ---------------------------------------------------------------------
\* Ambmask
\* ---------------------------------------------------------------------
\* Result of a call that may end the program with sys.exit.
Exited == [exit |-> TRUE, value |-> None]
Returns(v) == [exit |-> FALSE, value |-> v]

AtomIndex(atom_name) == CHOOSE i \in DOMAIN AtomNames : AtomNames[i] = atom_name

\* The atom ID the topology gives to an atom of a residue.
TopologyAtomId(residue_id, atom_name) ==
    (residue_id - 1) * Len(AtomNames) + AtomIndex(atom_name)

\* A line of ambmask output after strip() and split(): its first token and
\* the two integers that follow it.
Line(head, first, second) == [head |-> head, first |-> first, second |-> second]

\* The atom ID taken from the line without comparing its two numbers.
atom_id_from_stdout_unchecked(ambmask_stdout) ==
    IF ambmask_stdout = <<>> THEN Returns(None)
    ELSE IF Len(ambmask_stdout) > 1 THEN Exited
    ELSE IF ambmask_stdout[1].head # "ATOM" THEN Exited
    ELSE Returns(Some(ambmask_stdout[1].first))

\* Lines 128-142 of atom_id_by_residue_id_and_atom_name: what it makes of
\* the output of ambmask.  The program ends through sys.exit (line 135) or
\* through the NameError of the undefined `out` in the messages of lines
\* 132 and 140.
atom_id_from_stdout(ambmask_stdout) ==
    IF ambmask_stdout = <<>> THEN Returns(None)
    ELSE IF Len(ambmask_stdout) > 1 THEN Exited
    ELSE IF ambmask_stdout[1].head # "ATOM" THEN Exited
    ELSE IF ambmask_stdout[1].first # ambmask_stdout[1].second THEN Exited
    ELSE Returns(Some(ambmask_stdout[1].first))

\* The loop of residue_ids_by_name with the range of a line 'RES start
\* end', end > start, expanded.
RECURSIVE ResidueIdsLoopExpanding(_, _)
ResidueIdsLoopExpanding(lines, residue_ids) ==
    IF lines = <<>> THEN Returns(Some(residue_ids))
    ELSE LET line == Head(lines)
         IN IF line.head # "RES"
            THEN ResidueIdsLoopExpanding(Tail(lines), residue_ids)
            ELSE IF ~(line.second >= line.first) THEN Exited
            ELSE ResidueIdsLoopExpanding(Tail(lines),
                     residue_ids \o PyRange(line.first, line.second + 1))

\* Lines 104-120 of residue_ids_by_name: the loop over the output lines.
\* The extend of line 119 follows sys.exit and is never executed.
RECURSIVE ResidueIdsLoop(_, _)
ResidueIdsLoop(lines, residue_ids) ==
    IF lines = <<>> THEN Returns(Some(residue_ids))
    ELSE LET line == Head(lines)
         IN IF line.head # "RES"
            THEN ResidueIdsLoop(Tail(lines), residue_ids)
            ELSE IF line.first = line.second
            THEN ResidueIdsLoop(Tail(lines), Append(residue_ids, line.first))
            ELSE IF ~(line.second > line.first) THEN Exited
            ELSE ResidueIdsLoop(Tail(lines), residue_ids)

\* Lines 101-120 of residue_ids_by_name: None without output, else the list.
residue_ids_from_stdout(ambmask_stdout) ==
    IF ambmask_stdout = <<>> THEN Returns(None)
    ELSE ResidueIdsLoop(ambmask_stdout, <<>>)

\* The residue IDs in what residue_ids_by_name returned (None has none).
ReturnedIds(r) == IF r.value = None THEN <<>> ELSE r.value[1]

\* Ambmask._run(":resid@atom") on the topology: return code and output.
AmbmaskAtomRun(residue_id, atom_name) ==
    [returncode |-> IF <<residue_id, atom_name>> \in toolerr THEN 1 ELSE 0,
     out |-> IF <<residue_id, atom_name>> \in noatom
             THEN <<>>
             ELSE <<Line("ATOM", TopologyAtomId(residue_id, atom_name),
                         TopologyAtomId(residue_id, atom_name))>>]

\* Ambmask.atom_id_by_residue_id_and_atom_name: the atom ID, None when
\* ambmask printed nothing, no return when _run or the output checks end
\* the program.
atom_id_by_residue_id_and_atom_name(residue_id, atom_name) ==
    LET ran == AmbmaskAtomRun(residue_id, atom_name)
    IN IF ran.returncode # 0 THEN Exited
       ELSE atom_id_from_stdout(ran.out)

\* ---------------------------------------------------------------------
\* Atom, Dihedral and the label
\* ---------------------------------------------------------------------
Atom(aid, aname, resid, resname) ==
    [aid |-> aid, name |-> aname, resid |-> resid, resname |-> resname]

\* Dihedral(name, atoms).  `src` is not a field of the Python object: it
\* records the dihedral name, unit and angle the object was built from.
Dihedral(name, atoms, src) == [name |-> name, atoms |-> atoms, src |-> src]

\* Dihedral.__init__: assert len(atoms) == 4
DihedralAsserts(atoms) == Len(atoms) = 4

ZfillWidth == 3

RECURSIVE NumDigits(_)
\* len(str(i)) for i >= 0
NumDigits(i) == IF i < 10 THEN 1 ELSE 1 + NumDigits(i \div 10)

RECURSIVE Zeros(_)
Zeros(n) == IF n <= 0 THEN "" ELSE "0" \o Zeros(n - 1)

\* str(i).zfill(3)
Zfill(i) == Zeros(ZfillWidth - NumDigits(i)) \o ToString(i)

RECURSIVE Join(_, _)
\* sep.join(tokens)
Join(sep, tokens) ==
    IF tokens = <<>> THEN ""
    ELSE IF Len(tokens) = 1 THEN tokens[1]
    ELSE tokens[1] \o sep \o Join(sep, Tail(tokens))

\* zip(a, b): as long as the shorter list
Zip2(a, b) == [i \in 1..Min(Len(a), Len(b)) |-> <<a[i], b[i]>>]

Zip3(a, b, c) ==
    [i \in 1..Min(Len(a), Min(Len(b), Len(c))) |-> <<a[i], b[i], c[i]>>]

\* "-".join("%s_%s" % (str(i).zfill(3), n) for i, n in zip(...))
involved_residues_identifier(involved_resids, involved_residue_names) ==
    LET pairs == Zip2(involved_resids, involved_residue_names)
    IN Join("-", [j \in DOMAIN pairs |-> Zfill(pairs[j][1]) \o "_" \o pairs[j][2]])

\* The label without the name of the angle.
dihedral_identifier_without_angle(involved_resids, involved_residue_names, angle_name) ==
    involved_residues_identifier(involved_resids, involved_residue_names)

\* "%s-%s" % (involved_residues_identifier, angle_name)
dihedral_identifier(involved_resids, involved_residue_names, angle_name) ==
    involved_residues_identifier(involved_resids, involved_residue_names)
        \o "-" \o angle_name

\* dict(potential_unit): a later pair with the same name replaces an
\* earlier one.
UnitDict(potential_unit) ==
    [n \in {potential_unit[i][1] : i \in DOMAIN potential_unit} |->
        LET last == CHOOSE i \in DOMAIN potential_unit :
                        /\ potential_unit[i][1] = n
                        /\ \A j \in DOMAIN potential_unit :
                              potential_unit[j][1] = n => j <= i
        IN potential_unit[last][2]]

\* zip(*potential_unit)
UnitResnames(potential_unit) == [i \in DOMAIN potential_unit |-> potential_unit[i][1]]

UnitResids(potential_unit) == [i \in DOMAIN potential_unit |-> potential_unit[i][2]]

\* ---------------------------------------------------------------------
\* The configuration (YAML document loaded into dicts)
\* ---------------------------------------------------------------------
\* Dihedral names of the configurations explored, in split form.
PatternKeys == {<<"A">>, <<"A", "B">>, <<"B", "A">>, <<"A", "A">>}

\* Numbers of dihedral names in a configuration.
PatternCounts == {1, 2}

\* config[dihedname][angle_name]: the four residue names and atom names.
\* psi follows the example configuration; phi starts at the last residue
\* and names one atom in two slots.
AngleDetails(dihedname, angle_name) ==
    LET first == dihedname[1]
        last == dihedname[Len(dihedname)]
    IN IF angle_name = "psi"
       THEN [angle |-> angle_name,
             resnames |-> <<first, first, last, last>>,
             atoms |-> <<"H1", "C1", "O4", "C4">>]
       ELSE [angle |-> angle_name,
             resnames |-> <<last, first, first, last>>,
             atoms |-> <<"C4", "O4", "O4", "H1">>]

\* The angles of a dihedral name in the order of the YAML document.
DeclaredAngles(dihedname) ==
    IF Len(dihedname) = 1 THEN <<"psi">>
    ELSE IF dihedname[1] = "B" THEN <<"phi", "psi">>
    ELSE <<"psi", "phi">>

ConfigOf(keys) ==
    [k \in keys |->
        [j \in DOMAIN DeclaredAngles(k) |-> AngleDetails(k, DeclaredAngles(k)[j])]]

\* All orders in which a dict with the key set S can be iterated.
PermSeqs(S) == {s \in [1..Cardinality(S) -> S] : Range(s) = S}

\* dihed_config.iteritems(): the angles of one dihedral name in the
\* iteration order of the dict.
Iteritems(dihed_config) ==
    LET present == SelectSeq(hashorder,
                       LAMBDA a : \E j \in DOMAIN dihed_config : dihed_config[j].angle = a)
    IN [i \in DOMAIN present |->
           dihed_config[CHOOSE j \in DOMAIN dihed_config :
                            dihed_config[j].angle = present[i]]]

\* Residue names in the dihedral names (get_resids_for_resnames).
ResnamesInDihedralNames(keys) == UNION {Range(k) : k \in keys}

\* Atoms whose lookup may go wrong in the explored topologies.
BadPairs == {<<r, "O4">> : r \in Ids}

\* ---------------------------------------------------------------------
\* identify_dihedrals
\* ---------------------------------------------------------------------
\* for resname, ids in mapping.iteritems(): extend([(resname, idd) ...]),
\* the names taken in the dict's iteration order `order`.
Flatten(order) ==
    Concat([i \in DOMAIN order |->
               [j \in DOMAIN mapping[order[i]] |-> <<order[i], mapping[order[i]][j]>>]])

\* The sort with the direction flag not negated.
SortedResidueListFlipped(order) == SortById(Flatten(order), inverse)

\* resname_id_tuples.sort(key=operator.itemgetter(1), reverse=not inverse)
SortedResidueList(order) == SortById(Flatten(order), ~inverse)

\* A list that outlives the call (a module-level or default-argument list).
StaleDihedralList == dihedrals

\* dihedrals = []
NewDihedralList == <<>>

\* The assertion stripped (python -O) or forgotten.
CoherentUnchecked(unit_resids) == TRUE

\* unit_resids_ascending == range(first, last + 1)
Coherent(unit_resids) ==
    LET unit_resids_ascending == Sorted(unit_resids)
    IN unit_resids_ascending =
           PyRange(unit_resids_ascending[1],
                   unit_resids_ascending[Len(unit_resids_ascending)] + 1)

AssertionError(unit_resids, dihedname) ==
    [kind |-> "AssertionError", ids |-> Sorted(unit_resids), dihedname |-> dihedname]

SystemExit(dihedname) ==
    [kind |-> "SystemExit", ids |-> <<>>, dihedname |-> dihedname]

\* The AssertionError of Dihedral.__init__ (no message).
DihedralAssertionError(dihedname) ==
    [kind |-> "AssertionError", ids |-> <<>>, dihedname |-> dihedname]

\* for idd in ids, with ids = None
TypeError == [kind |-> "TypeError", ids |-> <<>>, dihedname |-> <<>>]

\* The residue names whose entry in resname_resids_mapping is None: those
\* without a residue, when ambmask prints nothing for them.
NoneNames == IF quiet THEN {n \in DOMAIN mapping : mapping[n] = <<>>} ELSE {}

\* The loop over the slots with the result of an earlier lookup of the same
\* (residue ID, atom name) reused instead of a new call.
RECURSIVE LookupAtomsCached(_, _)
LookupAtomsCached(groups, acc) ==
    IF groups = <<>> THEN acc
    ELSE LET resid == Head(groups)[1]
             resname == Head(groups)[2]
             aname == Head(groups)[3]
             res == atom_id_by_residue_id_and_atom_name(resid, aname)
             lookup == [resid |-> resid, aname |-> aname, result |-> res]
             cached == \E c \in Range(acc.calls) : c.resid = resid /\ c.aname = aname
         IN IF res.exit
            THEN [acc EXCEPT !.exit = TRUE,
                             !.calls = IF cached THEN @ ELSE Append(@, lookup)]
            ELSE LookupAtomsCached(Tail(groups),
                     [acc EXCEPT !.calls = IF cached THEN @ ELSE Append(@, lookup),
                                 !.atoms = Append(@, Atom(res.value, aname, resid, resname))])

\* for resid, resname, aname in residue_atom_name_groups: look up, append
RECURSIVE LookupAtoms(_, _)
LookupAtoms(groups, acc) ==
    IF groups = <<>> THEN acc
    ELSE LET resid == Head(groups)[1]
             resname == Head(groups)[2]
             aname == Head(groups)[3]
             res == atom_id_by_residue_id_and_atom_name(resid, aname)
             lookup == [resid |-> resid, aname |-> aname, result |-> res]
         IN IF res.exit
            THEN [acc EXCEPT !.exit = TRUE, !.calls = Append(@, lookup)]
            ELSE LookupAtoms(Tail(groups),
                     [acc EXCEPT !.calls = Append(@, lookup),
                                 !.atoms = Append(@, Atom(res.value, aname, resid, resname))])

\* The atoms collected, last slot first.
AtomListReversed(atoms) == [i \in DOMAIN atoms |-> atoms[Len(atoms) + 1 - i]]

\* The atoms of a Dihedral in the order they were appended.
AtomList(atoms) == atoms

\* Body of the loop over dihed_config.iteritems() for one angle.
CreateDihedral(involved_residue_names, potential_unit, details) ==
    LET unit == UnitDict(potential_unit)
        atomnames == details.atoms
        resnames == details.resnames
        resids == [i \in DOMAIN resnames |-> unit[resnames[i]]]
        involved_resids ==
            [i \in DOMAIN involved_residue_names |-> unit[involved_residue_names[i]]]
        residue_atom_name_groups == Zip3(resids, resnames, atomnames)
        looked == LookupAtoms(residue_atom_name_groups,
                      [exit |-> FALSE, atoms |-> <<>>, calls |-> <<>>])
        src == [dihedname |-> involved_residue_names,
                unit |-> potential_unit,
                angle |-> details.angle]
    IN [exit |-> looked.exit,
        raised |-> ~looked.exit /\ ~DihedralAsserts(AtomList(looked.atoms)),
        calls |-> looked.calls,
        dihedral |-> Dihedral(
            dihedral_identifier(involved_resids, involved_residue_names, details.angle),
            AtomList(looked.atoms), src)]

\* Lines 392-408: the label of the dihedral of one angle of a matching unit.
LabelOf(involved_residue_names, potential_unit, angle_name) ==
    LET unit == UnitDict(potential_unit)
        involved_resids ==
            [i \in DOMAIN involved_residue_names |-> unit[involved_residue_names[i]]]
    IN dihedral_identifier(involved_resids, involved_residue_names, angle_name)

\* dihedrals.insert(0, d)
EmitFront(list, d) == <<d>> \o list

\* dihedrals.append(d)
Emit(list, d) == Append(list, d)

\* for angle_name, details in dihed_config.iteritems(): ...
RECURSIVE CreateDihedrals(_, _, _, _)
CreateDihedrals(involved_residue_names, potential_unit, items, acc) ==
    IF items = <<>> THEN acc
    ELSE LET r == CreateDihedral(involved_residue_names, potential_unit, Head(items))
         IN IF r.exit
            THEN [acc EXCEPT !.exit = TRUE, !.calls = @ \o r.calls]
            ELSE IF r.raised
            THEN [acc EXCEPT !.raised = TRUE, !.calls = @ \o r.calls]
            ELSE CreateDihedrals(involved_residue_names, potential_unit, Tail(items),
                     [acc EXCEPT !.calls = @ \o r.calls,
                                 !.dihedrals = Emit(@, r.dihedral)])

\* The loop over the angles left after its first turn (`break`).
AnglesToCreateFirstOnly(dihedname) == SubSeq(Iteritems(config[dihedname]), 1, 1)

\* The angles for which a matching unit gets a dihedral.
AnglesToCreate(dihedname) == Iteritems(config[dihedname])

\* The outcome of a pass as the caller sees it.
Outcome == [pc |-> pc, err |-> err, returned |-> returned]

NoOutcome == [pc |-> "none", err |-> NoError, returned |-> NotReturned]

\* fnmatch.fnmatchcase on a name given as its characters and a wildcard
\* given as its tokens: '*' matches any run of characters, '?' one
\* character, any other token itself.
RECURSIVE fnmatchcase(_, _)
fnmatchcase(name, pat) ==
    IF pat = <<>> THEN name = <<>>
    ELSE IF Head(pat) = "*"
    THEN fnmatchcase(name, Tail(pat))
            \/ (name # <<>> /\ fnmatchcase(Tail(name), pat))
    ELSE /\ name # <<>>
         /\ Head(pat) = "?" \/ Head(pat) = Head(name)
         /\ fnmatchcase(Tail(name), Tail(pat))

\* options.merge as main groups it: for every merge name its wildcards, in
\* command-line order.
merge_groups(options) ==
    [n \in {o[1] : o \in Range(options)} |->
        LET own == SelectSeq(options, LAMBDA o : o[1] = n)
        IN [i \in DOMAIN own |-> own[i][2]]]

\* for wc in wildcards: a matching column is appended to the group and
\* deleted from df; df[original_name] of a deleted column is a KeyError.
RECURSIVE MergeWildcards(_, _, _, _)
MergeWildcards(st, name, original_name, wildcards) ==
    IF st.error # "none" \/ wildcards = <<>> THEN st
    ELSE IF ~fnmatchcase(original_name, Head(wildcards))
    THEN MergeWildcards(st, name, original_name, Tail(wildcards))
    ELSE IF original_name \notin Range(st.df)
    THEN [st EXCEPT !.error = "KeyError"]
    ELSE MergeWildcards(
             [st EXCEPT !.series[name] = Append(@, original_name),
                        !.df = SelectSeq(@, LAMBDA c : c # original_name)],
             name, original_name, Tail(wildcards))

\* for original_name in df.columns: the Index the loop started with.
RECURSIVE MergeColumns(_, _, _, _)
MergeColumns(st, name, columns, wildcards) ==
    IF st.error # "none" \/ columns = <<>> THEN st
    ELSE MergeColumns(MergeWildcards(st, name, Head(columns), wildcards),
                      name, Tail(columns), wildcards)

\* for name, wildcards in merge_groups.iteritems(): in the order of the dict.
RECURSIVE MergeGroups(_, _, _)
MergeGroups(st, order, groups) ==
    IF st.error # "none" \/ order = <<>> THEN st
    ELSE MergeGroups(MergeColumns(st, Head(order), st.df, groups[Head(order)]),
                     Tail(order), groups)

\* merge_dataseries_by_wildcards: for every merge name the columns merged
\* into it, the columns left in df, and the exception that ended it.
merge_dataseries_by_wildcards(df, groups, order) ==
    MergeGroups([df |-> df,
                 series |-> [n \in DOMAIN groups |-> <<>>],
                 error |-> "none"],
                order, groups)

\* main, lines 156-171 and 200: the check for repeated wildcards, the
\* grouping and the merge.
Merge(df, options, order) ==
    IF Len(options) # Cardinality({o[2] : o \in Range(options)})
    THEN [df |-> df, series |-> <<>>, error |-> "SystemExit"]
    ELSE merge_dataseries_by_wildcards(df, merge_groups(options), order)

\* Largest number of --merge options on the command line.
MaxMerge == 2

MergeNames == {"typeA", "typeB"}

\* Column names of the data file and wildcards, as characters and tokens.
ColumnNames == <<<<"a", "p">>, <<"a", "q">>, <<"b", "p">>>>

Wildcards == {<<"a", "*">>, <<"*", "p">>, <<"?", "q">>, <<"*">>}

\* Data files: any selection of the column names, in file order.
DataFrames ==
    {LET keep == SetToAscSeq(S) IN [i \in DOMAIN keep |-> ColumnNames[keep[i]]] :
        S \in SUBSET DOMAIN ColumnNames}

\* Merge calls: the columns, the --merge options in command-line order and
\* the order in which the dict of the merge groups is iterated.
MergeOptions == UNION {[1..n -> MergeNames \X Wildcards] : n \in 1..MaxMerge}

MergeCalls ==
    UNION {{[fn |-> "merge", df |-> df, options |-> options, order |-> order] :
               df \in DataFrames,
               order \in PermSeqs({o[1] : o \in Range(options)})} :
           options \in MergeOptions}

\* Ways in which the angle definitions of a configuration file fall short.
Defects == {"none", "no_atoms", "no_resnames", "three_atoms", "five_resnames",
            "foreign_resname", "unused_name"}

\* The details of an angle of dihedname with a defect.
Defective(details, defect, dihedname) ==
    CASE defect = "no_atoms" ->
             [angle |-> details.angle, resnames |-> details.resnames]
      [] defect = "no_resnames" ->
             [angle |-> details.angle, atoms |-> details.atoms]
      [] defect = "three_atoms" ->
             [details EXCEPT !.atoms = SubSeq(details.atoms, 1, 3)]
      [] defect = "five_resnames" ->
             [details EXCEPT !.resnames = Append(details.resnames, details.resnames[4])]
      [] defect = "foreign_resname" ->
             [details EXCEPT !.resnames[1] = Other]
      [] defect = "unused_name" ->
             [details EXCEPT !.resnames = [i \in 1..4 |-> dihedname[1]]]
      [] OTHER -> details

\* The configuration with the defect in the first declared angle of one
\* dihedral name; the last residue name is unused only if no angle uses it.
DefectiveConfig(keys, broken, defect) ==
    [k \in keys |->
        [j \in DOMAIN DeclaredAngles(k) |->
            IF k = broken /\ (j = 1 \/ defect = "unused_name")
            THEN Defective(AngleDetails(k, DeclaredAngles(k)[j]), defect, k)
            ELSE AngleDetails(k, DeclaredAngles(k)[j])]]

\* The asserts on one angle without those on the lengths.
AngleAssertsWithoutLengths(details) ==
    /\ "atoms" \in DOMAIN details
    /\ "resnames" \in DOMAIN details

\* validate_config, lines 451-454: the asserts on one angle.
AngleAsserts(details) ==
    /\ "atoms" \in DOMAIN details
    /\ "resnames" \in DOMAIN details
    /\ Len(details.resnames) = 4
    /\ Len(details.atoms) = 4

\* The comparison of the residue names as an inclusion.
ResnamesIncluded(resnames_in_details, resnames_in_dihedral_name) ==
    resnames_in_details \subseteq resnames_in_dihedral_name

\* validate_config, line 458
ResnamesMatch(resnames_in_details, resnames_in_dihedral_name) ==
    resnames_in_details = resnames_in_dihedral_name

\* for angle in config[dihedname]: the asserts, resnames.extend(...)
RECURSIVE ValidateAngles(_, _)
ValidateAngles(items, acc) ==
    IF items = <<>> THEN acc
    ELSE IF ~AngleAsserts(Head(items)) THEN [acc EXCEPT !.raised = TRUE]
    ELSE ValidateAngles(Tail(items),
             [acc EXCEPT !.resnames = @ \cup Range(Head(items).resnames)])

\* The AssertionError of validate_config (no message).
ConfigAssertionError(dihedname) ==
    [kind |-> "AssertionError", ids |-> <<>>, dihedname |-> dihedname]

\* validate_config over the dihedral names in the order of the dict: the
\* exception that ends the program, or none.
RECURSIVE validate_config(_)
validate_config(dihednames) ==
    IF dihednames = <<>> THEN NoError
    ELSE LET dihedname == Head(dihednames)
             checked == ValidateAngles(Iteritems(config[dihedname]),
                            [raised |-> FALSE, resnames |-> {}])
         IN IF checked.raised THEN ConfigAssertionError(dihedname)
            ELSE IF ~ResnamesMatch(checked.resnames, Range(dihedname))
            THEN SystemExit(dihedname)
            ELSE validate_config(Tail(dihednames))

\* What ambmask prints for ':name': a line 'RES i i' for every residue of
\* that name; for a name without residue nothing, or a line without RES.
ResidueStdout(name) ==
    LET ids == SetToAscSeq({i \in DOMAIN topology : topology[i] = name})
    IN IF ids = <<>>
       THEN IF quiet THEN <<>> ELSE <<Line("other", 1, 1)>>
       ELSE [j \in DOMAIN ids |-> Line("RES", ids[j], ids[j])]

\* Ambmask.residue_ids_by_name on a successful ambmask run.
residue_ids_by_name(name) == residue_ids_from_stdout(ResidueStdout(name))

\* Angle names that contain the separator of the label.
DashedAngleNames == {"002_B-psi"}

\* The sorted residue list of a chain: the residue with ID i has name chain[i].
ChainResidues(chain) == [i \in DOMAIN chain |-> <<chain[i], i>>]

\* Where the residue names of a dihedral name stand in the residue list.
MatchStarts(residues, key) ==
    {t \in DOMAIN residues :
        /\ t + Len(key) - 1 <= Len(residues)
        /\ \A j \in DOMAIN key : residues[t + j - 1][1] = key[j]}

\* The angles of the units that match a dihedral name in the residue list.
MatchAngles(residues) ==
    UNION {{[dihedname |-> key,
             unit |-> SubSeq(residues, s, s + Len(key) - 1),
             angle |-> a] :
               s \in MatchStarts(residues, key),
               a \in AngleNames \cup DashedAngleNames} :
           key \in PatternKeys}

\* Label calls: two angles of matching units of one residue list.
LabelCalls ==
    UNION {{[fn |-> "labels", first |-> a, second |-> b] :
               a \in MatchAngles(ChainResidues(chain)),
               b \in MatchAngles(ChainResidues(chain))} :
           chain \in [Ids -> Names]}

\* Largest number of lines of an ambmask output.
MaxLines == 2

\* Outputs of ambmask: up to MaxLines lines with RES, ATOM or other text.
Lines == {Line(h, a, b) : h \in {"RES", "ATOM", "other"}, a \in Ids, b \in Ids}

Stdouts == UNION {[1..n -> Lines] : n \in 0..MaxLines}

\* Calls of window(): a list of up to MaxId + 1 items, any n from -1 on.
WindowCalls ==
    {[fn |-> "window", iterable |-> [i \in 1..len |-> i], n |-> n] :
        len \in 0..(MaxId + 1), n \in (-1)..(MaxId + 2)}

AtomIdCalls == {[fn |-> "atom_id", stdout |-> out] : out \in Stdouts}

ResidueIdsCalls == {[fn |-> "residue_ids", stdout |-> out] : out \in Stdouts}

\* No function is called on its own; a call that is not over.
NoCall == [fn |-> "none"]
Pending == <<>>

Init ==
    /\ cfgkeys \in {s \in UNION {[1..n -> PatternKeys] : n \in PatternCounts} :
                        \A i, j \in DOMAIN s : i # j => s[i] # s[j]}
    /\ config = ConfigOf(Range(cfgkeys))
    /\ hashorder \in PermSeqs(AngleNames)
    /\ \E chain \in [Ids -> Names \cup {Other}] :
           mapping = [n \in ResnamesInDihedralNames(Range(cfgkeys)) |->
                         SetToAscSeq({i \in Ids : chain[i] = n})]
    /\ inverse \in BOOLEAN
    /\ noatom \in SUBSET BadPairs
    /\ toolerr \in SUBSET BadPairs
    /\ Cardinality(noatom \cup toolerr) <= 1
    /\ noatom \cap toolerr = {}
    /\ pc = "start"
    /\ resname_id_tuples = <<>>
    /\ kidx = 0
    /\ units = <<>>
    /\ upos = 0
    /\ dihedrals = <<>>
    /\ matched = <<>>
    /\ calls = <<>>
    /\ err = NoError
    /\ returned = NotReturned
    /\ run = 1
    /\ prev = NoOutcome
    /\ reslookups = <<>>
    /\ topology = <<>>
    /\ quiet = FALSE
    /\ call = NoCall
    /\ result = Pending

\* Lines 340-359: flatten the mapping, sort it, start with no dihedrals.
SortResidues ==
    /\ pc = "start"
    /\ IF NoneNames # {}
       THEN /\ pc' = "failed"
            /\ err' = TypeError
            /\ UNCHANGED <<resname_id_tuples, dihedrals>>
       ELSE /\ \E order \in PermSeqs(DOMAIN mapping) :
                   resname_id_tuples' = SortedResidueList(order)
            /\ dihedrals' = NewDihedralList
            /\ pc' = "loop"
            /\ err' = err
    /\ UNCHANGED <<inputs, outside, kidx, units, upos, matched, calls, returned, run, prev>>

\* The loop head with `dihedrals = []` inside the loop.
NextDihednameResetting ==
    /\ pc = "loop"
    /\ upos = Len(units)
    /\ kidx < Len(cfgkeys)
    /\ kidx' = kidx + 1
    /\ units' = window(resname_id_tuples, Len(cfgkeys[kidx + 1]))
    /\ upos' = 0
    /\ dihedrals' = <<>>
    /\ UNCHANGED <<inputs, outside, pc, resname_id_tuples, matched, calls, err,
                   returned, run, prev>>

\* Lines 360-364: the next dihedral name of config.keys() and its windows.
NextDihedname ==
    /\ pc = "loop"
    /\ upos = Len(units)
    /\ kidx < Len(cfgkeys)
    /\ kidx' = kidx + 1
    /\ units' = window(resname_id_tuples, Len(cfgkeys[kidx + 1]))
    /\ upos' = 0
    /\ UNCHANGED <<inputs, outside, pc, resname_id_tuples, dihedrals, matched, calls, err,
                   returned, run, prev>>

\* One potential unit with the atoms looked up before the IDs are checked.
PotentialUnitLookupFirst ==
    /\ pc = "loop"
    /\ upos < Len(units)
    /\ LET dihedname == cfgkeys[kidx]
           involved_residue_names == dihedname
           potential_unit == units[upos + 1]
           unit_resnames == UnitResnames(potential_unit)
           unit_resids == UnitResids(potential_unit)
       IN IF unit_resnames # involved_residue_names
          THEN /\ upos' = upos + 1
               /\ UNCHANGED <<pc, dihedrals, matched, calls, err>>
          ELSE LET r == CreateDihedrals(involved_residue_names, potential_unit,
                            AnglesToCreate(dihedname),
                            [exit |-> FALSE, raised |-> FALSE,
                             dihedrals |-> dihedrals, calls |-> <<>>])
               IN /\ matched' = Append(matched,
                                    [dihedname |-> dihedname, unit |-> potential_unit])
                  /\ calls' = calls \o r.calls
                  /\ IF r.exit
                     THEN /\ pc' = "failed"
                          /\ err' = SystemExit(dihedname)
                          /\ upos' = upos
                          /\ dihedrals' = r.dihedrals
                     ELSE IF ~Coherent(unit_resids)
                     THEN /\ pc' = "failed"
                          /\ err' = AssertionError(unit_resids, dihedname)
                          /\ UNCHANGED <<upos, dihedrals>>
                     ELSE IF r.raised
                     THEN /\ pc' = "failed"
                          /\ err' = DihedralAssertionError(dihedname)
                          /\ upos' = upos
                          /\ dihedrals' = r.dihedrals
                     ELSE /\ upos' = upos + 1
                          /\ dihedrals' = r.dihedrals
                          /\ UNCHANGED <<pc, err>>
    /\ UNCHANGED <<inputs, outside, resname_id_tuples, kidx, units, returned, run, prev>>

\* Lines 365-426: one potential unit of the current dihedral name.
PotentialUnit ==
    /\ pc = "loop"
    /\ upos < Len(units)
    /\ LET dihedname == cfgkeys[kidx]
           involved_residue_names == dihedname
           potential_unit == units[upos + 1]
           unit_resnames == UnitResnames(potential_unit)
           unit_resids == UnitResids(potential_unit)
       IN IF unit_resnames # involved_residue_names
          THEN /\ upos' = upos + 1
               /\ UNCHANGED <<pc, dihedrals, matched, calls, err>>
          ELSE /\ matched' = Append(matched,
                                 [dihedname |-> dihedname, unit |-> potential_unit])
               /\ IF ~Coherent(unit_resids)
                  THEN /\ pc' = "failed"
                       /\ err' = AssertionError(unit_resids, dihedname)
                       /\ UNCHANGED <<upos, dihedrals, calls>>
                  ELSE LET r == CreateDihedrals(involved_residue_names, potential_unit,
                                    AnglesToCreate(dihedname),
                                    [exit |-> FALSE, raised |-> FALSE,
                                     dihedrals |-> dihedrals, calls |-> <<>>])
                       IN /\ dihedrals' = r.dihedrals
                          /\ calls' = calls \o r.calls
                          /\ IF r.exit
                             THEN /\ pc' = "failed"
                                  /\ err' = SystemExit(dihedname)
                                  /\ upos' = upos
                             ELSE IF r.raised
                             THEN /\ pc' = "failed"
                                  /\ err' = DihedralAssertionError(dihedname)
                                  /\ upos' = upos
                             ELSE /\ upos' = upos + 1
                                  /\ UNCHANGED <<pc, err>>
    /\ UNCHANGED <<inputs, outside, resname_id_tuples, kidx, units, returned, run, prev>>

\* Line 430: return dihedrals
Return ==
    /\ pc = "loop"
    /\ upos = Len(units)
    /\ kidx = Len(cfgkeys)
    /\ returned' = Some(dihedrals)
    /\ pc' = "done"
    /\ UNCHANGED <<inputs, outside, resname_id_tuples, kidx, units, upos, dihedrals, matched,
                   calls, err, run, prev>>

\* The caller invokes identify_dihedrals once more with the same
\* arguments and the same ambmask object (line 231).
Rerun ==
    /\ run = 1
    /\ pc \in {"done", "failed"}
    /\ prev' = Outcome
    /\ run' = 2
    /\ pc' = "start"
    /\ resname_id_tuples' = <<>>
    /\ kidx' = 0
    /\ units' = <<>>
    /\ upos' = 0
    /\ matched' = <<>>
    /\ calls' = <<>>
    /\ err' = NoError
    /\ returned' = NotReturned
    /\ UNCHANGED <<inputs, outside, dihedrals>>

\* main, line 226: validate_config(config)
ValidateConfig ==
    /\ pc = "main"
    /\ LET e == validate_config(cfgkeys)
       IN IF e.kind = "none"
          THEN /\ pc' = "resids"
               /\ err' = err
          ELSE /\ pc' = "rejected"
               /\ err' = e
    /\ UNCHANGED <<inputs, outside, resname_id_tuples, kidx, units, upos, dihedrals,
                   matched, calls, returned, run, prev>>

\* main, line 228: get_resids_for_resnames(config); the names of the set
\* are looked up in some order.
GetResids ==
    /\ pc = "resids"
    /\ \E order \in PermSeqs(ResnamesInDihedralNames(Range(cfgkeys))) :
           reslookups' = order
    /\ mapping' = [name \in ResnamesInDihedralNames(Range(cfgkeys)) |->
                      ReturnedIds(residue_ids_by_name(name))]
    /\ pc' = "start"
    /\ UNCHANGED <<config, cfgkeys, hashorder, inverse, noatom, toolerr,
                   resname_id_tuples, kidx, units, upos, dihedrals, matched, calls,
                   err, returned, run, prev, topology, quiet, call, result>>

\* window(iterable, n) called on its own.
CallWindow ==
    /\ call.fn = "window"
    /\ result = Pending
    /\ result' = Some(IF TeeRaises(call.n)
                      THEN [error |-> "ValueError", windows |-> <<>>]
                      ELSE [error |-> "none", windows |-> window(call.iterable, call.n)])
    /\ UNCHANGED <<inputs, locals, run, prev, reslookups, topology, quiet, call>>

\* atom_id_by_residue_id_and_atom_name on a successful ambmask run.
CallAtomId ==
    /\ call.fn = "atom_id"
    /\ result = Pending
    /\ result' = Some(atom_id_from_stdout(call.stdout))
    /\ UNCHANGED <<inputs, locals, run, prev, reslookups, topology, quiet, call>>

\* residue_ids_by_name on a successful ambmask run.
CallResidueIds ==
    /\ call.fn = "residue_ids"
    /\ result = Pending
    /\ result' = Some(residue_ids_from_stdout(call.stdout))
    /\ UNCHANGED <<inputs, locals, run, prev, reslookups, topology, quiet, call>>

Next ==
    \/ SortResidues
    \/ NextDihedname
    \/ PotentialUnit
    \/ Return
    \/ Rerun

Spec == Init /\ [][Next]_vars

\* The merge of evaluate-dihedral-data called on its own.
CallMerge ==
    /\ call.fn = "merge"
    /\ result = Pending
    /\ result' = Some(Merge(call.df, call.options, call.order))
    /\ UNCHANGED <<inputs, locals, run, prev, reslookups, topology, quiet, call>>

\* The labels of two dihedrals of one pass.
CallLabels ==
    /\ call.fn = "labels"
    /\ result = Pending
    /\ result' = Some(<<LabelOf(call.first.dihedname, call.first.unit, call.first.angle),
                        LabelOf(call.second.dihedname, call.second.unit, call.second.angle)>>)
    /\ UNCHANGED <<inputs, locals, run, prev, reslookups, topology, quiet, call>>

\* The functions called on their own, one call per behaviour.
InitCalls ==
    /\ call \in WindowCalls \cup AtomIdCalls \cup ResidueIdsCalls \cup MergeCalls
                \cup LabelCalls
    /\ result = Pending
    /\ config = <<>>
    /\ cfgkeys = <<>>
    /\ hashorder = <<>>
    /\ mapping = <<>>
    /\ inverse = FALSE
    /\ noatom = {}
    /\ toolerr = {}
    /\ pc = "call"
    /\ resname_id_tuples = <<>>
    /\ kidx = 0
    /\ units = <<>>
    /\ upos = 0
    /\ dihedrals = <<>>
    /\ matched = <<>>
    /\ calls = <<>>
    /\ err = NoError
    /\ returned = NotReturned
    /\ run = 1
    /\ prev = NoOutcome
    /\ reslookups = <<>>
    /\ topology = <<>>
    /\ quiet = FALSE

NextCalls ==
    \/ CallWindow
    \/ CallAtomId
    \/ CallResidueIds
    \/ CallMerge
    \/ CallLabels

SpecCalls == InitCalls /\ [][NextCalls]_vars

\* The program from main on: any of the configurations, whole or with a
\* defect, on any topology; the atom lookups succeed.
InitMain ==
    /\ cfgkeys \in {s \in UNION {[1..n -> PatternKeys] : n \in PatternCounts} :
                        \A i, j \in DOMAIN s : i # j => s[i] # s[j]}
    /\ \E broken \in Range(cfgkeys), defect \in Defects :
           config = DefectiveConfig(Range(cfgkeys), broken, defect)
    /\ hashorder \in PermSeqs(AngleNames)
    /\ topology \in [Ids -> Names \cup {Other}]
    /\ quiet \in BOOLEAN
    /\ inverse \in BOOLEAN
    /\ mapping = <<>>
    /\ noatom = {}
    /\ toolerr = {}
    /\ pc = "main"
    /\ resname_id_tuples = <<>>
    /\ kidx = 0
    /\ units = <<>>
    /\ upos = 0
    /\ dihedrals = <<>>
    /\ matched = <<>>
    /\ calls = <<>>
    /\ err = NoError
    /\ returned = NotReturned
    /\ run = 1
    /\ prev = NoOutcome
    /\ reslookups = <<>>
    /\ call = NoCall
    /\ result = Pending

NextMain ==
    \/ ValidateConfig
    \/ GetResids
    \/ SortResidues
    \/ NextDihedname
    \/ PotentialUnit
    \/ Return

SpecMain == InitMain /\ [][NextMain]_vars

TypeOK ==
    /\ pc \in {"start", "loop", "done", "failed", "call", "main", "resids", "rejected"}
    /\ run \in {1, 2}
    /\ kidx \in 0..Len(cfgkeys)
    /\ upos \in 0..Len(units)

\* ---------------------------------------------------------------------
\* Properties
\* ---------------------------------------------------------------------
\* Start indices, in ascending order, of the windows of length Len(T) of S
\* whose names are T, among the first c windows.
MatchingStarts(S, T, c) ==
    SetToAscSeq({i \in 1..(Len(S) - Len(T) + 1) :
                    /\ i <= c
                    /\ \A j \in 1..Len(T) : S[i + j - 1][1] = T[j]})

WindowAt(S, i, k) == [j \in 1..k |-> S[i + j - 1]]

\* Number of windows the pass has taken for the q-th dihedral name.
Consumed(q) ==
    IF q < kidx THEN Len(resname_id_tuples)
    ELSE IF pc = "failed" THEN upos + 1 ELSE upos

ExpectedMatches(q) ==
    LET T == cfgkeys[q]
        starts == MatchingStarts(resname_id_tuples, T, Consumed(q))
    IN [m \in DOMAIN starts |->
           [dihedname |-> T, unit |-> WindowAt(resname_id_tuples, starts[m], Len(T))]]

\* C1: the windows treated as matches for a dihedral name T of k names are
\* exactly the windows S[i..i+k-1] whose names equal T, one per matching
\* start index i among the windows taken so far, in ascending order of i;
\* every one has exactly k residues.
C1_MatchesAreExactlyTheEqualWindows ==
    pc # "start" =>
        /\ matched = Concat([q \in 1..kidx |-> ExpectedMatches(q)])
        /\ \A m \in DOMAIN matched : Len(matched[m].unit) = Len(matched[m].dihedname)

\* A finished pass over at least three residues in which one dihedral name
\* of two residues matched two windows and another window did not match.
C1_Witness ==
    /\ pc = "done"
    /\ Len(resname_id_tuples) >= 3
    /\ \E a, b \in DOMAIN matched :
           /\ a < b
           /\ matched[a].dihedname = matched[b].dihedname
           /\ Len(matched[a].dihedname) = 2
    /\ \E q \in DOMAIN cfgkeys :
           Len(MatchingStarts(resname_id_tuples, cfgkeys[q], Len(resname_id_tuples)))
               < Len(resname_id_tuples) - Len(cfgkeys[q]) + 1

\* The IDs are, up to order, the integers from their minimum to their maximum.
IsConsecutiveRun(ids) ==
    /\ Cardinality(Range(ids)) = Len(ids)
    /\ \A x \in Range(ids) : \A y \in Range(ids) :
           \A z \in Ids : (x < z /\ z < y) => z \in Range(ids)

DihedralsOf(list, dihedname, unit) ==
    {i \in DOMAIN list : list[i].src.dihedname = dihedname /\ list[i].src.unit = unit}

\* C2: a name-matching window whose IDs are not a consecutive run ends the
\* pass with an AssertionError naming the sorted IDs and nothing is
\* returned; a name-matching window whose IDs are a consecutive run raises
\* no such error and gets its dihedrals.
C2_ContiguityCheck ==
    \A m \in DOMAIN matched :
        LET ids == UnitResids(matched[m].unit)
        IN IF ~IsConsecutiveRun(ids)
           THEN /\ m = Len(matched)
                /\ pc = "failed"
                /\ err.kind = "AssertionError"
                /\ err.ids = SetToAscSeq(Range(ids))
                /\ returned = NotReturned
           ELSE /\ (m = Len(matched) => err.kind # "AssertionError")
                /\ (m < Len(matched) \/ err.kind = "none") =>
                       Cardinality(DihedralsOf(dihedrals, matched[m].dihedname,
                                               matched[m].unit))
                           = Len(config[matched[m].dihedname])

\* A pass that built dihedrals for an earlier unit and then failed on a
\* unit with a gap in its IDs.
C2_Witness ==
    /\ pc = "failed"
    /\ err.kind = "AssertionError"
    /\ Len(dihedrals) > 0
    /\ returned = NotReturned

\* Number of times the pair (n, id) occurs in the input mapping.
TimesInMapping(n, id) ==
    IF n \in DOMAIN mapping
    THEN Cardinality({j \in DOMAIN mapping[n] : mapping[n][j] = id})
    ELSE 0

\* C3: the scanned sequence holds exactly the (name, ID) pairs of the
\* mapping, each as often as the mapping has it, from the largest to the
\* smallest ID unless `inverse`, then from the smallest to the largest.
C3_SortedResidueSequence ==
    pc # "start" =>
        /\ \A n \in Names \cup {Other} : \A id \in Ids :
               Cardinality({i \in DOMAIN resname_id_tuples :
                               resname_id_tuples[i] = <<n, id>>})
                   = TimesInMapping(n, id)
        /\ \A i \in DOMAIN resname_id_tuples :
               /\ resname_id_tuples[i][1] \in Names \cup {Other}
               /\ resname_id_tuples[i][2] \in Ids
        /\ \A i, j \in DOMAIN resname_id_tuples :
               i < j => IF inverse
                        THEN resname_id_tuples[i][2] <= resname_id_tuples[j][2]
                        ELSE resname_id_tuples[i][2] >= resname_id_tuples[j][2]

\* The default direction on residues of two names whose lists interleave.
C3_Witness ==
    /\ pc = "loop"
    /\ ~inverse
    /\ Len(resname_id_tuples) >= 3
    /\ \E i \in 1..(Len(resname_id_tuples) - 2) :
           /\ resname_id_tuples[i][1] = resname_id_tuples[i + 2][1]
           /\ resname_id_tuples[i][1] # resname_id_tuples[i + 1][1]
           /\ resname_id_tuples[i][2] > resname_id_tuples[i + 2][2]

\* The label the claim describes: per residue of the unit, in the order of
\* the dihedral name, its ID padded to three digits, '_' and its name.
PaddedId(i) ==
    IF i < 10 THEN "00" \o ToString(i)
    ELSE IF i < 100 THEN "0" \o ToString(i)
    ELSE ToString(i)

RECURSIVE ClaimedTokens(_)
ClaimedTokens(unit) ==
    IF unit = <<>> THEN ""
    ELSE PaddedId(Head(unit)[2]) \o "_" \o Head(unit)[1] \o "-" \o ClaimedTokens(Tail(unit))

ClaimedLabel(unit, angle_name) == ClaimedTokens(unit) \o angle_name

\* C4: the label of every emitted dihedral is '<ID of r_1 padded>_<n_1>-
\* ... -<ID of r_k padded>_<n_k>-<angle name>' for its unit (r_1, ..., r_k).
C4_LabelNamesTheUnitResidues ==
    \A i \in DOMAIN dihedrals :
        pc # "start" =>
            dihedrals[i].name = ClaimedLabel(dihedrals[i].src.unit, dihedrals[i].src.angle)

\* The angle definition a dihedral was built from.
DetailsOf(d) ==
    LET dihed_config == config[d.src.dihedname]
    IN dihed_config[CHOOSE j \in DOMAIN dihed_config : dihed_config[j].angle = d.src.angle]

\* C5: the i-th atom of every emitted dihedral has the atom name and
\* residue name of the i-th slot, the ID of a residue of the unit with that
\* name and the atom ID the lookup gives for (residue ID, atom name); there
\* are four atoms, in slot order, repeated ones included.
C5_AtomsFollowTheSlots ==
    \A n \in DOMAIN dihedrals :
        pc # "start" =>
            LET d == dihedrals[n]
                details == DetailsOf(d)
            IN /\ Len(d.atoms) = 4
               /\ \A i \in 1..4 :
                      /\ d.atoms[i].name = details.atoms[i]
                      /\ d.atoms[i].resname = details.resnames[i]
                      /\ \E j \in DOMAIN d.src.unit :
                             d.src.unit[j] = <<details.resnames[i], d.atoms[i].resid>>
                      /\ d.atoms[i].aid =
                             IF <<d.atoms[i].resid, d.atoms[i].name>> \in noatom
                             THEN None
                             ELSE Some(TopologyAtomId(d.atoms[i].resid, d.atoms[i].name))

\* A returned dihedral over two different residues whose second and third
\* slot name the same atom and whose first slot is not the first residue.
C5_Witness ==
    /\ pc = "done"
    /\ \E n \in DOMAIN returned[1] :
           LET d == returned[1][n]
           IN /\ d.atoms[2] = d.atoms[3]
              /\ d.atoms[1].resid # d.atoms[2].resid
              /\ d.atoms[1].resid = d.src.unit[2][2]

\* C6: a lookup that finds no atom ends the pass with an error; no list
\* with an atom of unresolved ID is built or returned.
C6_LookupMissAbortsPass ==
    pc # "start" =>
        /\ \A c \in DOMAIN calls :
               calls[c].result = Returns(None) => pc = "failed"
        /\ \A n \in DOMAIN dihedrals : \A i \in DOMAIN dihedrals[n].atoms :
               dihedrals[n].atoms[i].aid # None

RECURSIVE SumSeq(_)
SumSeq(s) == IF s = <<>> THEN 0 ELSE Head(s) + SumSeq(Tail(s))

AllStarts(T) == MatchingStarts(resname_id_tuples, T, Len(resname_id_tuples))

\* C7: a returned list has exactly one dihedral per dihedral name, matching
\* window of that name and angle of that name, and nothing else.
C7_OneDihedralPerMatchAndAngle ==
    pc = "done" =>
        LET list == returned[1]
        IN /\ Len(list) = SumSeq([q \in DOMAIN cfgkeys |->
                                     Len(AllStarts(cfgkeys[q])) * Len(config[cfgkeys[q]])])
           /\ \A q \in DOMAIN cfgkeys : \A s \in Range(AllStarts(cfgkeys[q])) :
                  \A a \in DOMAIN config[cfgkeys[q]] :
                      Cardinality({n \in DOMAIN list :
                          list[n].src =
                              [dihedname |-> cfgkeys[q],
                               unit |-> WindowAt(resname_id_tuples, s, Len(cfgkeys[q])),
                               angle |-> config[cfgkeys[q]][a].angle]}) = 1
           /\ \A n \in DOMAIN list :
                  /\ list[n].src.dihedname \in Range(cfgkeys)
                  /\ \E s \in Range(AllStarts(list[n].src.dihedname)) :
                         list[n].src.unit =
                             WindowAt(resname_id_tuples, s, Len(list[n].src.dihedname))
                  /\ \E a \in DOMAIN config[list[n].src.dihedname] :
                         config[list[n].src.dihedname][a].angle = list[n].src.angle

\* Two dihedral names with matches, one of them with two angles.
C7_Witness ==
    /\ pc = "done"
    /\ Len(returned[1]) >= 3
    /\ \E m, n \in DOMAIN returned[1] :
           /\ returned[1][m].src.dihedname # returned[1][n].src.dihedname
           /\ Len(config[returned[1][m].src.dihedname]) = 2

\* Position of a dihedral's dihedral name in config.keys(), of its unit in
\* the sorted residue list, of its angle in the YAML document and in the
\* iteration order of the angle dict.
KeyIndex(d) == CHOOSE q \in DOMAIN cfgkeys : cfgkeys[q] = d.src.dihedname

StartIndex(d) ==
    CHOOSE s \in DOMAIN resname_id_tuples :
        WindowAt(resname_id_tuples, s, Len(d.src.unit)) = d.src.unit

DeclaredIndex(d) ==
    CHOOSE a \in DOMAIN DeclaredAngles(d.src.dihedname) :
        DeclaredAngles(d.src.dihedname)[a] = d.src.angle

IterationIndex(d) ==
    LET items == Iteritems(config[d.src.dihedname])
    IN CHOOSE a \in DOMAIN items : items[a].angle = d.src.angle

\* C8 as stated: by dihedral name, then by window start, then by the
\* declared order of the angles.
C8_OrderedByDeclaredAngles ==
    pc = "done" =>
        \A m, n \in DOMAIN returned[1] :
            m < n =>
                LET d == returned[1][m]
                    e == returned[1][n]
                IN \/ KeyIndex(d) < KeyIndex(e)
                   \/ KeyIndex(d) = KeyIndex(e) /\ StartIndex(d) < StartIndex(e)
                   \/ /\ KeyIndex(d) = KeyIndex(e)
                      /\ StartIndex(d) = StartIndex(e)
                      /\ DeclaredIndex(d) < DeclaredIndex(e)

\* C8 amended: by dihedral name in the order of config.keys() (the
\* dihedrals of one name are adjacent), then by window start, then by the
\* iteration order of the name's angle dict.
C8_OrderedByIterationOrder ==
    pc = "done" =>
        \A m, n \in DOMAIN returned[1] :
            m < n =>
                LET d == returned[1][m]
                    e == returned[1][n]
                IN \/ KeyIndex(d) < KeyIndex(e)
                   \/ KeyIndex(d) = KeyIndex(e) /\ StartIndex(d) < StartIndex(e)
                   \/ /\ KeyIndex(d) = KeyIndex(e)
                      /\ StartIndex(d) = StartIndex(e)
                      /\ IterationIndex(d) < IterationIndex(e)

\* Dihedrals of two names, one name with two units of two angles each, the
\* angle dict iterated against the declared order.
C8_Witness ==
    /\ pc = "done"
    /\ \E l, m, n \in DOMAIN returned[1] :
           /\ l < m
           /\ KeyIndex(returned[1][l]) = KeyIndex(returned[1][m])
           /\ StartIndex(returned[1][l]) = StartIndex(returned[1][m])
           /\ DeclaredIndex(returned[1][l]) > DeclaredIndex(returned[1][m])
           /\ KeyIndex(returned[1][n]) = KeyIndex(returned[1][m])
           /\ StartIndex(returned[1][n]) > StartIndex(returned[1][m])
    /\ \E m, n \in DOMAIN returned[1] : KeyIndex(returned[1][m]) # KeyIndex(returned[1][n])

\* C9: a second pass on the same arguments ends as the first did: with the
\* same exception or with an equal list.
C9_SecondPassSameOutcome ==
    (run = 2 /\ pc \in {"done", "failed"}) => Outcome = prev

\* A second pass that returned at least two dihedrals.
C9_Witness ==
    /\ run = 2
    /\ pc = "done"
    /\ Len(returned[1]) >= 2
    /\ prev.pc = "done"

\* C10: a dihedral name without a name-matching window in the sorted list
\* has no dihedral, no exception is raised in its loop, and a finished pass
\* returns the dihedrals of every unit of the other names.
C10_ZeroMatchIsNoError ==
    pc # "start" =>
        \A q \in DOMAIN cfgkeys :
            AllStarts(cfgkeys[q]) = <<>> =>
                /\ \A n \in DOMAIN dihedrals : dihedrals[n].src.dihedname # cfgkeys[q]
                /\ err.kind # "none" => err.dihedname # cfgkeys[q]
                /\ pc = "failed" => kidx # q
                /\ pc = "done" =>
                       \A r \in DOMAIN cfgkeys : \A s \in Range(AllStarts(cfgkeys[r])) :
                           Cardinality(DihedralsOf(returned[1], cfgkeys[r],
                               WindowAt(resname_id_tuples, s, Len(cfgkeys[r]))))
                               = Len(config[cfgkeys[r]])

\* A finished pass in which the first dihedral name matched no window of a
\* list long enough for it, and the next name has its dihedrals returned.
C10_Witness ==
    /\ pc = "done"
    /\ Len(returned[1]) > 0
    /\ AllStarts(cfgkeys[1]) = <<>>
    /\ Len(resname_id_tuples) >= Len(cfgkeys[1])
    /\ Len(cfgkeys) > 1

\* C11: two name-matching windows of one dihedral name that share a
\* position of the sorted list are both treated as matches, the earlier one
\* first, once the pass has taken both.
C11_OverlappingMatchesBothTaken ==
    pc # "start" =>
        \A q \in 1..kidx :
            LET T == cfgkeys[q]
                k == Len(T)
            IN \A i, j \in Range(AllStarts(T)) :
                   (i < j /\ j < i + k /\ j <= Consumed(q)) =>
                       \E a, b \in DOMAIN matched :
                           /\ a < b
                           /\ matched[a] = [dihedname |-> T,
                                            unit |-> WindowAt(resname_id_tuples, i, k)]
                           /\ matched[b] = [dihedname |-> T,
                                            unit |-> WindowAt(resname_id_tuples, j, k)]

\* A finished pass with two matches of one name, the second residue of the
\* first being the first residue of the second, both with dihedrals.
C11_Witness ==
    /\ pc = "done"
    /\ \E a, b \in DOMAIN matched :
           /\ a < b
           /\ matched[a].dihedname = matched[b].dihedname
           /\ Len(matched[a].unit) = 2
           /\ matched[a].unit[2] = matched[b].unit[1]
           /\ DihedralsOf(returned[1], matched[a].dihedname, matched[a].unit) # {}
           /\ DihedralsOf(returned[1], matched[b].dihedname, matched[b].unit) # {}

\* C14: window() on a list of n items with a window length k >= 1 gives, without
\* error, at most n - k + 1 windows of k items, and none when k > n.
C14_WindowCountBounded ==
    \A r \in Range(result) :
        (call.fn = "window" /\ call.n >= 1) =>
            /\ r.error = "none"
            /\ Len(r.windows) <= Len(call.iterable) - call.n + 1 \/ r.windows = <<>>
            /\ call.n > Len(call.iterable) => r.windows = <<>>
            /\ \A t \in DOMAIN r.windows : Len(r.windows[t]) = call.n

\* A call with k = n + 1 on a list that is not empty, and one with
\* 1 < k < n, are over.
C14_Witness ==
    /\ result # Pending
    /\ call.fn = "window"
    /\ call.n = 2
    /\ Len(call.iterable) = 3
    /\ Len(result[1].windows) = 2

\* C15 as stated: window() with k < 1 fails with an error.
C15_WindowRejectsShortPattern ==
    \A r \in Range(result) :
        (call.fn = "window" /\ call.n < 1) => r.error # "none"

\* C15 amended: window() with k = 0 gives no window and no error; with
\* k < 0 it fails with the ValueError of itertools.tee.
C15_WindowOfZeroIsEmpty ==
    \A r \in Range(result) :
        (call.fn = "window" /\ call.n < 1) =>
            /\ r.windows = <<>>
            /\ r.error = IF call.n = 0 THEN "none" ELSE "ValueError"

\* A call with k = 0 on a list of at least two items is over.
C15_Witness ==
    /\ result # Pending
    /\ call.fn = "window"
    /\ call.n = 0
    /\ Len(call.iterable) >= 2

\* C18: the atom lookup gives None on empty output, the atom ID on one line
\* 'ATOM a a', and ends the program on any other output.
C18_AtomOutputCases ==
    \A r \in Range(result) :
        call.fn = "atom_id" =>
            IF call.stdout = <<>> THEN r = Returns(None)
            ELSE IF /\ Len(call.stdout) = 1
                    /\ call.stdout[1].head = "ATOM"
                    /\ call.stdout[1].first = call.stdout[1].second
                 THEN r = Returns(Some(call.stdout[1].first))
                 ELSE r.exit

\* The program ended on one ATOM line with two different numbers.
C18_Witness ==
    /\ result # Pending
    /\ call.fn = "atom_id"
    /\ Len(call.stdout) = 1
    /\ call.stdout[1].head = "ATOM"
    /\ call.stdout[1].first # call.stdout[1].second
    /\ result[1].exit

\* The IDs of the lines 'RES start end' with start = end, in line order.
SingletonIds(stdout) ==
    LET lines == SelectSeq(stdout, LAMBDA l : l.head = "RES" /\ l.first = l.second)
    IN [i \in DOMAIN lines |-> lines[i].first]

HasBackwardRange(stdout) ==
    \E i \in DOMAIN stdout : stdout[i].head = "RES" /\ stdout[i].second < stdout[i].first

\* C19: residue_ids_by_name returns, in line order, the IDs of the lines
\* 'RES start end' with start = end and nothing else: a line with
\* end > start adds nothing, other lines are ignored, and a RES line with
\* end < start ends the program.
C19_ResidueIdsOfSingletonLines ==
    \A r \in Range(result) :
        call.fn = "residue_ids" =>
            IF HasBackwardRange(call.stdout) THEN r.exit
            ELSE /\ ~r.exit
                 /\ ReturnedIds(r) = SingletonIds(call.stdout)

\* A range line with end > start before a line with start = end gave a list
\* with the one ID of the second line.
C19_Witness ==
    /\ result # Pending
    /\ call.fn = "residue_ids"
    /\ Len(call.stdout) = 2
    /\ call.stdout[1].head = "RES"
    /\ call.stdout[1].second > call.stdout[1].first
    /\ result[1] = Returns(Some(<<call.stdout[2].first>>))

\* The --merge options whose wildcard matches the column, by position.
MatchingOptions(options, column) ==
    {i \in DOMAIN options : fnmatchcase(column, options[i][2])}

\* C17: a merge with no repeated wildcard completes without error, and
\* every column that matches a wildcard is in exactly one merged data set,
\* once: the one named with the first matching wildcard of the command line.
C17_ColumnGoesToFirstWildcard ==
    \A r \in Range(result) :
        (call.fn = "merge" /\ r.error # "SystemExit") =>
            /\ r.error = "none"
            /\ \A c \in Range(call.df) :
                   LET hits == MatchingOptions(call.options, c)
                   IN hits # {} =>
                          \A n \in DOMAIN r.series :
                              Len(SelectSeq(r.series[n], LAMBDA x : x = c))
                                  = IF n = call.options[SetToAscSeq(hits)[1]][1] THEN 1 ELSE 0

\* The (residue ID, atom name) of slot i of an emitted dihedral.
SlotPair(d, i) ==
    <<d.atoms[i].resid, DetailsOf(d).atoms[i]>>

\* C20: the lookups of a pass are, in order, the four slots of every
\* emitted dihedral in emission order, each with its slot's (residue ID,
\* atom name) and the result that became the atom's ID; a pair that recurs
\* is looked up again; only a pass ended by a lookup has further calls: the
\* slots of the angle it ended in, up to the one that ended it.
C20_OneLookupPerSlot ==
    pc \in {"loop", "done", "failed"} =>
        LET whole == 4 * Len(dihedrals)
        IN /\ Len(calls) >= whole
           /\ \A n \in DOMAIN dihedrals : \A i \in 1..4 :
                  LET c == calls[4 * (n - 1) + i]
                  IN /\ <<c.resid, c.aname>> = SlotPair(dihedrals[n], i)
                     /\ c.result = Returns(dihedrals[n].atoms[i].aid)
           /\ IF err.kind = "SystemExit"
              THEN /\ Len(calls) \in (whole + 1)..(whole + 4)
                   /\ calls[Len(calls)].result.exit
                   /\ \A j \in (whole + 1)..(Len(calls) - 1) : ~calls[j].result.exit
              ELSE Len(calls) = whole
           /\ pc = "done" => Len(calls) = 4 * Len(returned[1])

\* A pass returned dihedrals after looking one (residue ID, atom name) pair
\* up in two slots of one dihedral and again for another dihedral.
C20_Witness ==
    /\ pc = "done"
    /\ Len(returned[1]) >= 2
    /\ \E a, b, c \in DOMAIN calls :
           /\ a < b
           /\ b < c
           /\ (a - 1) \div 4 = (b - 1) \div 4
           /\ (c - 1) \div 4 # (b - 1) \div 4
           /\ <<calls[a].resid, calls[a].aname>> = <<calls[b].resid, calls[b].aname>>
           /\ <<calls[c].resid, calls[c].aname>> = <<calls[b].resid, calls[b].aname>>

\* The (dihedral name, residue IDs, angle name) of an angle of a unit.
TripleOf(a) == <<a.dihedname, UnitResids(a.unit), a.angle>>

\* C16 as stated: two dihedrals of a pass have the same label exactly when
\* they have the same (dihedral name, residue IDs, angle name).
C16_LabelsDistinctIffTriplesDistinct ==
    \A r \in Range(result) :
        call.fn = "labels" =>
            (r[1] = r[2] <=> TripleOf(call.first) = TripleOf(call.second))

\* C16 amended: the same, for angle names without the separator '-'.
C16_LabelsDistinctForPlainAngleNames ==
    \A r \in Range(result) :
        (/\ call.fn = "labels"
         /\ call.first.angle \notin DashedAngleNames
         /\ call.second.angle \notin DashedAngleNames) =>
            (r[1] = r[2] <=> TripleOf(call.first) = TripleOf(call.second))

\* Two angles of one unit of a dihedral name that repeats a residue name
\* got different labels.
C16_Witness ==
    /\ result # Pending
    /\ call.fn = "labels"
    /\ call.first.dihedname = <<"A", "A">>
    /\ call.first.unit = call.second.unit
    /\ call.first.dihedname = call.second.dihedname
    /\ call.first.angle = "psi"
    /\ call.second.angle = "phi"
    /\ result[1][1] # result[1][2]

\* The residue names in the slot lists of the angles of a dihedral name.
SlotResnames(dihedname) ==
    UNION {Range(config[dihedname][j].resnames) :
              j \in {i \in DOMAIN config[dihedname] :
                        "resnames" \in DOMAIN config[dihedname][i]}}

\* Some angle lacks 'atoms' or 'resnames' or has a list that is not of
\* length 4.
Malformed(dihedname) ==
    \E j \in DOMAIN config[dihedname] :
        LET details == config[dihedname][j]
        IN \/ "atoms" \notin DOMAIN details
           \/ "resnames" \notin DOMAIN details
           \/ Len(details.atoms) # 4
           \/ Len(details.resnames) # 4

\* Nothing after validate_config has taken place.
NothingLookedUpOrMatched ==
    /\ pc \in {"main", "rejected"}
    /\ reslookups = <<>>
    /\ mapping = <<>>
    /\ calls = <<>>
    /\ resname_id_tuples = <<>>
    /\ matched = <<>>
    /\ dihedrals = <<>>
    /\ returned = NotReturned

\* C12: a configuration in which, for some dihedral name, the residue names
\* of the slot lists are not exactly those of the name never gets past
\* validate_config: no residue lookup, atom lookup or matching takes place;
\* and a well-formed configuration is rejected for no other reason.
C12_ClosedWorldOrRejected ==
    /\ (\E k \in Range(cfgkeys) : SlotResnames(k) # Range(k)) =>
           NothingLookedUpOrMatched
    /\ (pc = "rejected" /\ \A k \in Range(cfgkeys) : ~Malformed(k)) =>
           /\ err.kind = "SystemExit"
           /\ SlotResnames(err.dihedname) # Range(err.dihedname)

\* The second dihedral name of a configuration was rejected for a residue
\* name that no slot list uses, after the first one was accepted.
C12_Witness ==
    /\ pc = "rejected"
    /\ err.kind = "SystemExit"
    /\ Len(cfgkeys) = 2
    /\ err.dihedname = cfgkeys[2]
    /\ SlotResnames(cfgkeys[2]) # Range(cfgkeys[2])
    /\ SlotResnames(cfgkeys[2]) \subseteq Range(cfgkeys[2])
    /\ reslookups = <<>>

\* C13: every returned dihedral has four atoms, and a configuration with an
\* angle that lacks 'atoms' or 'resnames' or has such a list of another
\* length than 4 is rejected by validate_config and reaches no matching.
C13_FourAtomsOrRejected ==
    /\ \A d \in Range(dihedrals) : Len(d.atoms) = 4
    /\ \A r \in Range(returned) : \A d \in Range(r) : Len(d.atoms) = 4
    /\ (\E k \in Range(cfgkeys) : Malformed(k)) =>
           /\ NothingLookedUpOrMatched
           /\ pc = "rejected" => err.kind = "AssertionError"

\* A configuration with an angle of three atoms was rejected by an assert.
C13_Witness ==
    /\ pc = "rejected"
    /\ err.kind = "AssertionError"
    /\ \E j \in DOMAIN config[err.dihedname] :
           /\ "atoms" \in DOMAIN config[err.dihedname][j]
           /\ Len(config[err.dihedname][j].atoms) = 3

\* The residues of the topology that bear a name of the mapping.
NamedResidues == {<<topology[i], i>> : i \in {j \in DOMAIN topology : topology[j] \in DOMAIN mapping}}

\* C21: once the residue names are looked up, a name without residue IDs
\* (an empty list or None) causes no error in identify_dihedrals and adds
\* nothing to the residue list, which holds the residues of the other names.
C21_AbsentNameContributesNothing ==
    (/\ pc \in {"loop", "done", "failed"}
     /\ \E n \in DOMAIN mapping : mapping[n] = <<>>) =>
        /\ err.kind # "TypeError"
        /\ Range(resname_id_tuples) = NamedResidues

\* The step of the residue IDs along the search direction.
DirectionStep == IF inverse THEN 1 ELSE -1

\* C22: the IDs of every matching unit that passes the contiguity check
\* change by exactly one per position in the search direction: down by
\* one by default, up by one with inverse.
C22_MatchesStepByOne ==
    \A m \in DOMAIN matched :
        LET ids == UnitResids(matched[m].unit)
        IN Coherent(ids) =>
               \A j \in 1..(Len(ids) - 1) : ids[j + 1] = ids[j] + DirectionStep

\* In the default direction 'A-B' matched an A whose ID is one larger than
\* that of B, and the pass returned its dihedrals.
C22_Witness ==
    /\ pc = "done"
    /\ ~inverse
    /\ \E m \in DOMAIN matched :
           /\ matched[m].dihedname = <<"A", "B">>
           /\ UnitResids(matched[m].unit)[1] = UnitResids(matched[m].unit)[2] + 1
           /\ DihedralsOf(returned[1], matched[m].dihedname, matched[m].unit) # {}

\* The pass ended in the contiguity check of its last matching unit.
FailedContiguityCheck ==
    /\ pc = "failed"
    /\ err.kind = "AssertionError"
    /\ matched # <<>>
    /\ ~IsConsecutiveRun(UnitResids(matched[Len(matched)].unit))

\* C23: when the contiguity check of a matching unit fails, the atom
\* lookups made are exactly those of the units accepted before it, four per
\* angle of each: none was made for the failing unit, and none is made for
\* it or for a later unit or dihedral name afterwards.
C23_NoLookupAfterFailedCheck ==
    FailedContiguityCheck =>
        /\ Len(calls) = 4 * SumSeq([m \in 1..(Len(matched) - 1) |->
                                      Len(config[matched[m].dihedname])])
        /\ Len(calls) = 4 * Len(dihedrals)
        /\ DihedralsOf(dihedrals, matched[Len(matched)].dihedname,
                       matched[Len(matched)].unit) = {}
        /\ \A m \in 1..(Len(matched) - 1) :
               Cardinality(DihedralsOf(dihedrals, matched[m].dihedname, matched[m].unit))
                   = Len(config[matched[m].dihedname])

\* The check failed for a unit after the atoms of an earlier unit had been
\* looked up.
C23_Witness ==
    /\ FailedContiguityCheck
    /\ Len(matched) >= 2
    /\ Len(calls) >= 4

====
